---------------------------- MODULE Spec2Model ----------------------------
(***************************************************************************)
(* Model of bill2cipher/go-sasl: the DIGEST-MD5 integrity security context *)
(* (package digest) and the preference parsing of package sasl.            *)
(*                                                                         *)
(* Two revisions of the integrity context are in the tree: the file        *)
(* src/digest/security.go and the later text in src/unnamed/part_002.      *)
(* The variable rev says which of them a behaviour runs; the operators     *)
(* take it as a parameter wherever the two texts differ.                   *)
(*                                                                         *)
(* Modelling conventions                                                   *)
(*  - a byte is a number 0..255; a byte slice is a sequence; the Go        *)
(*    offset start is 0-based, so buf[start+idx] is buf[start+idx+1] here. *)
(*  - HMAC-MD5 and MD5 are ideal: an MD5 digest is the term [md5 |-> m],   *)
(*    and byte j of HMAC-MD5(k, d) is the term [k, d, i |-> j, x |-> 0];   *)
(*    x is the xor mask a tamperer applied to that byte.                   *)
(*  - the slices messageType (2 bytes) and sequenceNum (4 bytes) and the   *)
(*    secret hA1, which no constructor in the tree allocates, are taken    *)
(*    as allocated when the context is built.                              *)
(***************************************************************************)
EXTENDS Integers, Sequences, FiniteSets, TLC

VARIABLES rev, ctx, log, accepted, seqFailed, last, parse,
          sasl, plain, ret, priv, pret, far

\* the variables of the property lookups and of the PLAIN client
saslVars == <<sasl, plain, ret>>

\* the variables of the Privacy context
privVars == <<priv, pret>>

vars == <<rev, ctx, log, accepted, seqFailed, last, parse, saslVars, privVars, far>>

---------------------------------------------------------------------------
(* Bounds *)

MaxWraps == 2
MaxTokens == 3
MaxLen == 2
NumSecrets == 2

Ctxs == {1, 2}
PayloadBytes == {65}
Payloads == UNION {[1..n -> PayloadBytes] : n \in 0..MaxLen}
Secrets == {<<s, s + 1>> : s \in 1..NumSecrets}
FlipBytes == {1, 5, 10}
FlipBits == {0, 7}

---------------------------------------------------------------------------
(* Constants of the program *)

\* A magic string is one unit of the key buffer: the two strings have the
\* same length in the source (48 bytes), and nothing reads them bytewise.
CLIENT_INT_MAGIC == <<"golang sasl integrity client-to-server magic key">>

SVR_INT_MAGIC == <<"golang sasl integrity server-to-client magic key">>

EMPTY_BYTE_SLICE == <<>>

Pow2(n) == 2 ^ n

---------------------------------------------------------------------------
(* Slices *)

\* make([]byte, n): n zero bytes
MakeBytes(n) == [k \in 1..n |-> 0]

\* copy(dst[at:], src): overwrites min(len(dst)-at, len(src)) bytes of dst
CopyAt(dst, at, src) ==
  [k \in 1..Len(dst) |->
     IF k > at /\ k - at <= Len(src) THEN src[k - at] ELSE dst[k]]

\* s[from:to] with 0-based bounds
Slice(s, from, to) == SubSeq(s, from + 1, to)

---------------------------------------------------------------------------
(* sasl: integer helpers *)

RECURSIVE EncodeLoop(_, _, _, _)
\* for idx := count - 1; idx >= 0; idx-- { buf[start+idx] = byte(uNum & 0xFF); uNum >>= 8 }
EncodeLoop(uNum, buf, start, idx) ==
  IF idx < 0 THEN buf
  ELSE EncodeLoop(uNum \div 256,
                  [buf EXCEPT ![start + idx + 1] = uNum % 256],
                  start, idx - 1)

\* uNum := uint32(num): the low 32 bits of num.  The numbers of this model
\* are below 2^31, where the conversion changes nothing.
Uint32(num) == num

\* intToNetworkByteOrder testing count after the bytes are written
intToNetworkByteOrder_LateTest(num, buf, start, count) ==
  [err |-> count > 4, buf |-> EncodeLoop(Uint32(num), buf, start, count - 1)]

intToNetworkByteOrder(num, buf, start, count) ==
  IF count > 4
  THEN [err |-> TRUE, buf |-> buf]
  ELSE [err |-> FALSE, buf |-> EncodeLoop(Uint32(num), buf, start, count - 1)]

RECURSIVE DecodeLoop(_, _, _, _, _)
\* for idx := 0; idx < count; idx++ { result <<= 8; result |= int(buf[start+idx]) & 0xFF }
DecodeLoop(result, buf, start, idx, count) ==
  IF idx >= count THEN result
  ELSE DecodeLoop(result * 256 + (buf[start + idx + 1] % 256),
                  buf, start, idx + 1, count)

networkByteOrderToInt(buf, start, count) ==
  IF count > 4
  THEN [err |-> TRUE, val |-> 0]
  ELSE [err |-> FALSE, val |-> DecodeLoop(0, buf, start, 0, count)]

---------------------------------------------------------------------------
(* sasl: mask helpers.  A mask is a byte. *)

RECURSIVE BitAnd(_, _)
\* a & b
BitAnd(a, b) ==
  IF a = 0 \/ b = 0 THEN 0
  ELSE (a % 2) * (b % 2) + 2 * BitAnd(a \div 2, b \div 2)

RECURSIVE BitOr(_, _)
\* a | b
BitOr(a, b) ==
  IF a = 0 THEN b
  ELSE IF b = 0 THEN a
  ELSE (IF a % 2 = 1 \/ b % 2 = 1 THEN 1 ELSE 0) + 2 * BitOr(a \div 2, b \div 2)

RECURSIVE CombineLoop(_, _, _)
\* for i := 0; i < len(in); i++ { answer |= in[i] }
CombineLoop(answer, in, i) ==
  IF i >= Len(in) THEN answer
  ELSE CombineLoop(BitOr(answer, in[i + 1]), in, i + 1)

combineMasks(in) == CombineLoop(0, in, 0)

RECURSIVE FindLoop_LastMatch(_, _, _)
\* the loop of findPreferredMask running from the end of the list
FindLoop_LastMatch(pref, in, i) ==
  IF i >= Len(in) THEN 0
  ELSE IF BitAnd(in[Len(in) - i], pref) # 0 THEN in[Len(in) - i]
  ELSE FindLoop_LastMatch(pref, in, i + 1)

RECURSIVE FindLoop(_, _, _)
\* for i := 0; i < len(in); i++ { if (in[i] & pref) != 0 { return in[i] } }; return 0
FindLoop(pref, in, i) ==
  IF i >= Len(in) THEN 0
  ELSE IF BitAnd(in[i + 1], pref) # 0 THEN in[i + 1]
  ELSE FindLoop(pref, in, i + 1)

\* findPreferredMask returning the last matching entry
findPreferredMask_LastMatch(pref, in) == FindLoop_LastMatch(pref, in, 0)

findPreferredMask(pref, in) == FindLoop(pref, in, 0)

---------------------------------------------------------------------------
(* sasl: preference parsing.  A string is the sequence of its characters. *)

NO_PROTECTION == 1
INTEGRITY_ONLY_PROTECTION == 2
PRIVACY_PROTECTION == 4
LOW_STRENGTH == 1
MEDIUM_STRENGTH == 2
HIGH_STRENGTH == 4

AUTH_CONF == <<"a", "u", "t", "h", "-", "c", "o", "n", "f">>
AUTH_INT == <<"a", "u", "t", "h", "-", "i", "n", "t">>
AUTH == <<"a", "u", "t", "h">>
LOW == <<"l", "o", "w">>
MEDIUM == <<"m", "e", "d", "i", "u", "m">>
HIGH == <<"h", "i", "g", "h">>

DEFAULT_QOP == <<NO_PROTECTION>>
QOP_TOKENS == <<AUTH_CONF, AUTH_INT, AUTH>>
QOP_MASKS == <<PRIVACY_PROTECTION, INTEGRITY_ONLY_PROTECTION, NO_PROTECTION>>
DEFAULT_STRENGTH == <<HIGH_STRENGTH, MEDIUM_STRENGTH, LOW_STRENGTH>>
STRENGTH_TOKENS == <<LOW, MEDIUM, HIGH>>
STRENGTH_MASKS == <<LOW_STRENGTH, MEDIUM_STRENGTH, HIGH_STRENGTH>>

\* the separator handed to strings.Split in parseProp: ", \t\n"
SPLIT_SEP == <<",", " ", "\t", "\n">>

UpperCase ==
  <<"A", "B", "C", "D", "E", "F", "G", "H", "I", "J", "K", "L", "M",
    "N", "O", "P", "Q", "R", "S", "T", "U", "V", "W", "X", "Y", "Z">>

LowerCase ==
  <<"a", "b", "c", "d", "e", "f", "g", "h", "i", "j", "k", "l", "m",
    "n", "o", "p", "q", "r", "s", "t", "u", "v", "w", "x", "y", "z">>

\* strings.ToLower
ToLower(str) ==
  [k \in 1..Len(str) |->
     IF \E u \in 1..26 : UpperCase[u] = str[k]
     THEN LowerCase[CHOOSE u \in 1..26 : UpperCase[u] = str[k]]
     ELSE str[k]]

\* strings.Index(str, sep) + 1, or 0 when sep does not occur in str
IndexOf(str, sep) ==
  LET hits == {q \in 1..(Len(str) - Len(sep) + 1) :
                 SubSeq(str, q, q + Len(sep) - 1) = sep}
  IN  IF hits = {} THEN 0 ELSE CHOOSE q \in hits : \A h \in hits : q <= h

RECURSIVE Split(_, _)
\* strings.Split(str, sep) for a non-empty sep: the pieces of str between the
\* occurrences of the whole of sep; one piece, str, when sep does not occur
Split(str, sep) ==
  LET q == IndexOf(str, sep)
  IN  IF q = 0 THEN <<str>>
      ELSE <<SubSeq(str, 1, q - 1)>> \o Split(SubSeq(str, q + Len(sep), Len(str)), sep)

RECURSIVE ValsLoop(_, _, _, _, _, _)
\* for j := 0; !found && j < len(vals); j++ { ... } of parseProp, entered
\* with the state st = [found, answer, tokens]; the comparison reads vals[i]
ValsLoop(st, parts, vals, masks, i, j) ==
  IF st.found \/ j >= Len(vals) THEN st
  ELSE IF ToLower(parts[i + 1]) # ToLower(vals[i + 1])
  THEN ValsLoop(st, parts, vals, masks, i, j + 1)
  ELSE ValsLoop([found  |-> TRUE,
                 answer |-> [st.answer EXCEPT ![i + 1] = masks[j + 1]],
                 tokens |-> IF st.tokens = <<>> THEN st.tokens
                            ELSE [st.tokens EXCEPT ![j + 1] = parts[i + 1]]],
                parts, vals, masks, i, j + 1)

RECURSIVE PartsLoop(_, _, _, _, _, _)
\* for i = 0; i < len(answer) && i < len(parts); i++ { ... } of parseProp,
\* with the zero fill that follows it
PartsLoop(st, parts, vals, masks, ignore, i) ==
  IF ~(i < Len(st.answer) /\ i < Len(parts))
  THEN [err |-> FALSE,
        answer |-> [k \in 1..Len(st.answer) |-> IF k > i THEN 0 ELSE st.answer[k]],
        tokens |-> st.tokens]
  ELSE LET st1 == ValsLoop([st EXCEPT !.found = FALSE], parts, vals, masks, i, 0)
       IN  IF ~st1.found /\ ~ignore
           THEN [err |-> TRUE, answer |-> <<>>, tokens |-> st1.tokens]
           ELSE PartsLoop(st1, parts, vals, masks, ignore, i + 1)

\* tokens is <<>> for nil, else a slice of len(vals) strings.  The result is
\* (answer, nil) or (nil, error); parts is the local of that name.
parseProp(propVal, vals, masks, tokens, ignore) ==
  LET parts == Split(propVal, SPLIT_SEP)
      r == PartsLoop([found |-> FALSE, answer |-> MakeBytes(Len(vals)),
                      tokens |-> tokens],
                     parts, vals, masks, ignore, 0)
  IN  [err |-> r.err, answer |-> r.answer, tokens |-> r.tokens, parts |-> parts]

\* parseQop2 without the return for the empty string
parseQop2_NoDefault(qop, saveTokens, ignore) ==
  parseProp(qop, QOP_TOKENS, QOP_MASKS, saveTokens, ignore)

parseQop2(qop, saveTokens, ignore) ==
  IF qop = <<>>
  THEN [err |-> FALSE, answer |-> DEFAULT_QOP, tokens |-> saveTokens, parts |-> <<>>]
  ELSE parseProp(qop, QOP_TOKENS, QOP_MASKS, saveTokens, ignore)

parseQop(qop) == parseQop2(qop, <<>>, FALSE)

parseStrength(strength) ==
  IF Len(strength) <= 0
  THEN [err |-> FALSE, answer |-> DEFAULT_STRENGTH, tokens |-> <<>>, parts |-> <<>>]
  ELSE parseProp(strength, STRENGTH_TOKENS, STRENGTH_MASKS, <<>>, FALSE)

---------------------------------------------------------------------------
(* digest: hashing *)

\* md5.Sum(m): the 16-byte digest of m, as an ideal hash
MD5Sum(m) == [md5 |-> m]

\* md5.New().Sum(b) with nothing written: b followed by the digest of ""
MD5_OF_EMPTY ==
  <<212, 29, 140, 217, 143, 0, 178, 4, 233, 128, 9, 152, 236, 248, 66, 126>>

\* hmac.New(md5.New, ki); mac.Write(d); mac.Sum(nil): 16 bytes
HMacMD5(ki, d) == [j \in 1..16 |-> [k |-> ki, d |-> d, i |-> j, x |-> 0]]

---------------------------------------------------------------------------
(* digest: the Integrity context *)

\* part_002: keyBuffer = hA1 ++ magic, hashed; the second magic overwrites
\* the first in place.  security.go: md5Digest.Sum(keyBuffer.Bytes()) appends
\* the digest of nothing to the buffer, and the buffer is not reset between
\* the two keys.
KeyPair(r, hA1) ==
  IF r = "part_002"
  THEN LET buf0 == MakeBytes(Len(hA1) + Len(CLIENT_INT_MAGIC))
           buf1 == CopyAt(buf0, 0, hA1)
           buf2 == CopyAt(buf1, Len(hA1), CLIENT_INT_MAGIC)
           buf3 == CopyAt(buf2, Len(hA1), SVR_INT_MAGIC)
       IN  [kic |-> MD5Sum(buf2), kis |-> MD5Sum(buf3)]
  ELSE LET buf1 == hA1 \o CLIENT_INT_MAGIC
           buf2 == buf1 \o hA1 \o SVR_INT_MAGIC
       IN  [kic |-> buf1 \o MD5_OF_EMPTY, kis |-> buf2 \o MD5_OF_EMPTY]

\* a server that takes the keys the way a client does
generateIntegrityKeyPair_NoSwap(r, hA1, clientMode) ==
  LET kp == KeyPair(r, hA1)
  IN  [myKi |-> kp.kic, peerKi |-> kp.kis]

generateIntegrityKeyPair(r, hA1, clientMode) ==
  LET kp == KeyPair(r, hA1)
  IN  IF clientMode
      THEN [myKi |-> kp.kic, peerKi |-> kp.kis]
      ELSE [myKi |-> kp.kis, peerKi |-> kp.kic]

NewIntegrity(r, hA1, clientMode) ==
  LET keys == generateIntegrityKeyPair(r, hA1, clientMode)
  IN  [clientMode  |-> clientMode,
       hA1         |-> hA1,
       myKi        |-> keys.myKi,
       peerKi      |-> keys.peerKi,
       mySeqNum    |-> 0,
       peerSeqNum  |-> 0,
       messageType |-> intToNetworkByteOrder(1, MakeBytes(2), 0, 2).buf,
       sequenceNum |-> MakeBytes(4)]

\* a MAC over the message alone, without the sequence number
GetHMac_IgnoreSeq(r, ki, seqnum, msg, start, msgLen) ==
  LET seqAndMsg == Slice(msg, start, start + msgLen)
      mac == HMacMD5(ki, seqAndMsg)
  IN  IF r = "part_002" THEN Slice(mac, 0, 10) ELSE mac

\* part_002 returns mac.Sum(nil)[:10], security.go returns mac.Sum(nil)
GetHMac(r, ki, seqnum, msg, start, msgLen) ==
  LET seqAndMsg == Slice(seqnum, 0, 4) \o Slice(msg, start, start + msgLen)
      mac == HMacMD5(ki, seqAndMsg)
  IN  IF r = "part_002" THEN Slice(mac, 0, 10) ELSE mac

\* the counter incremented before it is encoded
IncrementSeqNum_IncFirst(i) ==
  [i EXCEPT !.sequenceNum = intToNetworkByteOrder(i.mySeqNum + 1, i.sequenceNum, 0, 4).buf,
            !.mySeqNum = i.mySeqNum + 1]

\* IncrementSeqNum advancing the peer's counter as well
IncrementSeqNum_BumpsPeer(i) ==
  [i EXCEPT !.sequenceNum = intToNetworkByteOrder(i.mySeqNum, i.sequenceNum, 0, 4).buf,
            !.mySeqNum = i.mySeqNum + 1,
            !.peerSeqNum = i.peerSeqNum + 1]

IncrementSeqNum(i) ==
  [i EXCEPT !.sequenceNum = intToNetworkByteOrder(i.mySeqNum, i.sequenceNum, 0, 4).buf,
            !.mySeqNum = i.mySeqNum + 1]

\* Wrap without the msgLen == 0 return
IntegrityWrap_NoShortCircuit(r, i, outgoing, start, msgLen) ==
  LET i1 == IncrementSeqNum(i)
      mac == GetHMac(r, i1.myKi, i1.sequenceNum, outgoing, start, msgLen)
      wrapped == Slice(outgoing, start, start + msgLen)
                   \o Slice(mac, 0, 10)
                   \o Slice(i1.messageType, 0, 2)
                   \o Slice(i1.sequenceNum, 0, 4)
  IN  [res |-> "ok", out |-> wrapped, ctx |-> i1]

\* Wrap that computes the MAC before IncrementSeqNum has stored the number
IntegrityWrap_StaleSeqMac(r, i, outgoing, start, msgLen) ==
  IF msgLen = 0
  THEN [res |-> "empty", out |-> EMPTY_BYTE_SLICE, ctx |-> i]
  ELSE LET i1 == IncrementSeqNum(i)
           mac == GetHMac(r, i.myKi, i.sequenceNum, outgoing, start, msgLen)
           wrapped == Slice(outgoing, start, start + msgLen)
                        \o Slice(mac, 0, 10)
                        \o Slice(i1.messageType, 0, 2)
                        \o Slice(i1.sequenceNum, 0, 4)
       IN  [res |-> "ok", out |-> wrapped, ctx |-> i1]

\* The result of a call: res is "ok" (data, nil), "empty" (EMPTY_BYTE_SLICE,
\* nil), "seqerr" (nil, error) or "panic"; ctx is the context afterwards.
IntegrityWrap(r, i, outgoing, start, msgLen) ==
  IF msgLen = 0
  THEN [res |-> "empty", out |-> EMPTY_BYTE_SLICE, ctx |-> i]
  ELSE LET i1 == IncrementSeqNum(i)
           mac == GetHMac(r, i1.myKi, i1.sequenceNum, outgoing, start, msgLen)
           wrapped == Slice(outgoing, start, start + msgLen)
                        \o Slice(mac, 0, 10)
                        \o Slice(i1.messageType, 0, 2)
                        \o Slice(i1.sequenceNum, 0, 4)
       IN  [res |-> "ok", out |-> wrapped, ctx |-> i1]

\* a comparison that stops one byte short
BytesDiffer_Prefix(a, b) == SubSeq(a, 1, Len(a) - 1) # SubSeq(b, 1, Len(b) - 1)

\* bytes.Compare(a, b) != 0
BytesDiffer(a, b) == a # b

\* a check that only rejects numbers ahead of the expected one
SeqMismatch_OnlyAhead(parsedSeqNum, peerSeqNum) == parsedSeqNum > peerSeqNum

\* no check of the received number
SeqMismatch_Never(parsedSeqNum, peerSeqNum) == FALSE

\* parsedSeqNum != i.peerSeqNum
SeqMismatch(parsedSeqNum, peerSeqNum) == parsedSeqNum # peerSeqNum

\* The four copies of Unwrap.  part_002 copies from open-ended slices
\* (incoming[at:]), so a short input leaves the tail of a field zero;
\* security.go gives both bounds.
UnwrapField(r, incoming, at, size) ==
  IF r = "part_002"
  THEN CopyAt(MakeBytes(size), 0, Slice(incoming, at, Len(incoming)))
  ELSE CopyAt(MakeBytes(size), 0, Slice(incoming, at, at + size))

\* make([]byte, msgLen-16) with a negative length and a slice bound past
\* the end of incoming abort the call
UnwrapPanics(r, incoming, start, msgLen) ==
  \/ msgLen - 16 < 0
  \/ IF r = "part_002"
     THEN start + (msgLen - 16) + 12 > Len(incoming)
     ELSE start + msgLen > Len(incoming)

\* Unwrap that adopts the received number when it reports a mismatch
IntegrityUnwrap_Resync(r, i, incoming, start, msgLen) ==
  IF msgLen = 0
  THEN [res |-> "empty", out |-> EMPTY_BYTE_SLICE, ctx |-> i]
  ELSE IF UnwrapPanics(r, incoming, start, msgLen)
  THEN [res |-> "panic", out |-> <<>>, ctx |-> i]
  ELSE LET n == msgLen - 16
           msg == UnwrapField(r, incoming, start, n)
           mac == UnwrapField(r, incoming, start + n, 10)
           msgType == UnwrapField(r, incoming, start + n + 10, 2)
           seqNum == UnwrapField(r, incoming, start + n + 12, 4)
           expectedMac == GetHMac(r, i.peerKi, seqNum, msg, 0, Len(msg))
           parsedSeqNum == networkByteOrderToInt(seqNum, 0, 4)
       IN  IF BytesDiffer(expectedMac, mac)
           THEN [res |-> "empty", out |-> EMPTY_BYTE_SLICE, ctx |-> i]
           ELSE IF parsedSeqNum.err
           THEN [res |-> "seqerr", out |-> <<>>, ctx |-> i]
           ELSE IF SeqMismatch(parsedSeqNum.val, i.peerSeqNum)
           THEN [res |-> "seqerr", out |-> <<>>,
                 ctx |-> [i EXCEPT !.peerSeqNum = parsedSeqNum.val + 1]]
           ELSE [res |-> "ok", out |-> msg,
                 ctx |-> [i EXCEPT !.peerSeqNum = i.peerSeqNum + 1]]

\* Unwrap that counts a discarded message as received
IntegrityUnwrap_CountDiscard(r, i, incoming, start, msgLen) ==
  IF msgLen = 0
  THEN [res |-> "empty", out |-> EMPTY_BYTE_SLICE, ctx |-> i]
  ELSE IF UnwrapPanics(r, incoming, start, msgLen)
  THEN [res |-> "panic", out |-> <<>>, ctx |-> i]
  ELSE LET n == msgLen - 16
           msg == UnwrapField(r, incoming, start, n)
           mac == UnwrapField(r, incoming, start + n, 10)
           msgType == UnwrapField(r, incoming, start + n + 10, 2)
           seqNum == UnwrapField(r, incoming, start + n + 12, 4)
           expectedMac == GetHMac(r, i.peerKi, seqNum, msg, 0, Len(msg))
           parsedSeqNum == networkByteOrderToInt(seqNum, 0, 4)
       IN  IF BytesDiffer(expectedMac, mac)
           THEN [res |-> "empty", out |-> EMPTY_BYTE_SLICE,
                 ctx |-> [i EXCEPT !.peerSeqNum = i.peerSeqNum + 1]]
           ELSE IF parsedSeqNum.err
           THEN [res |-> "seqerr", out |-> <<>>, ctx |-> i]
           ELSE IF SeqMismatch(parsedSeqNum.val, i.peerSeqNum)
           THEN [res |-> "seqerr", out |-> <<>>, ctx |-> i]
           ELSE [res |-> "ok", out |-> msg,
                 ctx |-> [i EXCEPT !.peerSeqNum = i.peerSeqNum + 1]]

\* Unwrap that verifies the MAC with the own key
IntegrityUnwrap_OwnKey(r, i, incoming, start, msgLen) ==
  IF msgLen = 0
  THEN [res |-> "empty", out |-> EMPTY_BYTE_SLICE, ctx |-> i]
  ELSE IF UnwrapPanics(r, incoming, start, msgLen)
  THEN [res |-> "panic", out |-> <<>>, ctx |-> i]
  ELSE LET n == msgLen - 16
           msg == UnwrapField(r, incoming, start, n)
           mac == UnwrapField(r, incoming, start + n, 10)
           msgType == UnwrapField(r, incoming, start + n + 10, 2)
           seqNum == UnwrapField(r, incoming, start + n + 12, 4)
           expectedMac == GetHMac(r, i.myKi, seqNum, msg, 0, Len(msg))
           parsedSeqNum == networkByteOrderToInt(seqNum, 0, 4)
       IN  IF BytesDiffer(expectedMac, mac)
           THEN [res |-> "empty", out |-> EMPTY_BYTE_SLICE, ctx |-> i]
           ELSE IF parsedSeqNum.err
           THEN [res |-> "seqerr", out |-> <<>>, ctx |-> i]
           ELSE IF SeqMismatch(parsedSeqNum.val, i.peerSeqNum)
           THEN [res |-> "seqerr", out |-> <<>>, ctx |-> i]
           ELSE [res |-> "ok", out |-> msg,
                 ctx |-> [i EXCEPT !.peerSeqNum = i.peerSeqNum + 1]]

IntegrityUnwrap(r, i, incoming, start, msgLen) ==
  IF msgLen = 0
  THEN [res |-> "empty", out |-> EMPTY_BYTE_SLICE, ctx |-> i]
  ELSE IF UnwrapPanics(r, incoming, start, msgLen)
  THEN [res |-> "panic", out |-> <<>>, ctx |-> i]
  ELSE LET n == msgLen - 16
           msg == UnwrapField(r, incoming, start, n)
           mac == UnwrapField(r, incoming, start + n, 10)
           msgType == UnwrapField(r, incoming, start + n + 10, 2)
           seqNum == UnwrapField(r, incoming, start + n + 12, 4)
           expectedMac == GetHMac(r, i.peerKi, seqNum, msg, 0, Len(msg))
           parsedSeqNum == networkByteOrderToInt(seqNum, 0, 4)
       IN  IF BytesDiffer(expectedMac, mac)
           THEN [res |-> "empty", out |-> EMPTY_BYTE_SLICE, ctx |-> i]
           ELSE IF parsedSeqNum.err
           THEN [res |-> "seqerr", out |-> <<>>, ctx |-> i]
           ELSE IF SeqMismatch(parsedSeqNum.val, i.peerSeqNum)
           THEN [res |-> "seqerr", out |-> <<>>, ctx |-> i]
           ELSE [res |-> "ok", out |-> msg,
                 ctx |-> [i EXCEPT !.peerSeqNum = i.peerSeqNum + 1]]

---------------------------------------------------------------------------
(* sasl: the negotiated properties of Sasl *)

SaslPropertyQop == "golang.security.sasl.qop"
SaslPropertyStrength == "golang.security.sasl.strength"
SaslPropertyMaxBuffer == "golang.security.sasl.maxbuffer"
SaslPropertyRawSendSize == "golang.security.sasl.rawsendsize"
MAX_SEND_BUF == "golang.security.sasl.sendmaxbuffer"

Digit(d) == <<"0", "1", "2", "3", "4", "5", "6", "7", "8", "9">>[d + 1]

RECURSIVE FormatInt(_)
\* fmt.Sprintf("%d", n) for n >= 0: the decimal digits of n
FormatInt(n) ==
  IF n < 10 THEN <<Digit(n)>>
  ELSE FormatInt(n \div 10) \o <<Digit(n % 10)>>

\* the results (interface{}, error) and ([]byte, error)
Value(v) == [nil |-> FALSE, val |-> v, err |-> FALSE]
NilNil == [nil |-> TRUE, val |-> <<>>, err |-> FALSE]
NilError == [nil |-> TRUE, val |-> <<>>, err |-> TRUE]

\* the qop property with the two tests in the other order
QopProperty_IntegrityFirst(s) ==
  IF s.Integrity THEN Value(AUTH_INT)
  ELSE IF s.Privacy THEN Value(AUTH_CONF)
  ELSE Value(AUTH)

\* case SaslPropertyQop
QopProperty(s) ==
  IF s.Privacy THEN Value(AUTH_CONF)
  ELSE IF s.Integrity THEN Value(AUTH_INT)
  ELSE Value(AUTH)

\* GetNegotiatedProperty without the test of Completed
SaslGetNegotiatedProperty_NoGate(s, propName) ==
  IF propName = SaslPropertyQop THEN QopProperty(s)
  ELSE IF propName = SaslPropertyMaxBuffer THEN Value(FormatInt(s.RecvMaxBufSize))
  ELSE IF propName = SaslPropertyRawSendSize THEN Value(FormatInt(s.RawSendSize))
  ELSE IF propName = SaslPropertyMaxBuffer THEN Value(FormatInt(s.SendMaxBufSize))
  ELSE NilNil

\* The cases of the switch are tried from the top; the fourth repeats the
\* label of the second.
SaslGetNegotiatedProperty(s, propName) ==
  IF ~s.Completed THEN NilError
  ELSE IF propName = SaslPropertyQop THEN QopProperty(s)
  ELSE IF propName = SaslPropertyMaxBuffer THEN Value(FormatInt(s.RecvMaxBufSize))
  ELSE IF propName = SaslPropertyRawSendSize THEN Value(FormatInt(s.RawSendSize))
  ELSE IF propName = SaslPropertyMaxBuffer THEN Value(FormatInt(s.SendMaxBufSize))
  ELSE NilNil

---------------------------------------------------------------------------
(* sasl: the PLAIN client.  The client is the record c; buf is the byte     *)
(* slice the caller gave to NewPlainClient, and c.pw is "buf", a reference  *)
(* to that slice, or "nil".                                                 *)

SEP == 0

NewPlainClient(authorizationID, authenticationID) ==
  [completed |-> FALSE, pw |-> "buf",
   authorizationID |-> authorizationID, authenticationID |-> authenticationID]

\* clearPassword dropping the reference without writing the zeros
clearPassword_KeepBytes(p) ==
  IF p.c.pw = "nil" THEN p
  ELSE [c |-> [p.c EXCEPT !.pw = "nil"], buf |-> p.buf]

clearPassword(p) ==
  IF p.c.pw = "nil" THEN p
  ELSE [c |-> [p.c EXCEPT !.pw = "nil"], buf |-> [k \in 1..Len(p.buf) |-> 0]]

PlainDispose(p) == [r |-> NilNil, p |-> clearPassword(p)]

\* EvaluateChallenge without c.completed = true
PlainEvaluateChallenge_NoLatch(p) ==
  IF p.c.completed THEN [r |-> NilError, p |-> p]
  ELSE LET p1 == p
           authz == IF Len(p1.c.authorizationID) > 0 THEN p1.c.authorizationID ELSE <<>>
           auth == p1.c.authenticationID
           pw == IF p1.c.pw = "nil" THEN <<>> ELSE p1.buf
           answer == (IF Len(authz) > 0 THEN authz ELSE <<>>)
                       \o <<SEP>> \o auth \o <<SEP>> \o pw
       IN  [r |-> Value(answer), p |-> clearPassword(p1)]

PlainEvaluateChallenge(p) ==
  IF p.c.completed THEN [r |-> NilError, p |-> p]
  ELSE LET p1 == [p EXCEPT !.c.completed = TRUE]
           authz == IF Len(p1.c.authorizationID) > 0 THEN p1.c.authorizationID ELSE <<>>
           auth == p1.c.authenticationID
           pw == IF p1.c.pw = "nil" THEN <<>> ELSE p1.buf
           answer == (IF Len(authz) > 0 THEN authz ELSE <<>>)
                       \o <<SEP>> \o auth \o <<SEP>> \o pw
       IN  [r |-> Value(answer), p |-> clearPassword(p1)]

IsComplete(c) == c.completed

\* (nil, errors.New(msg))
ErrorOf(msg) == [nil |-> TRUE, val |-> <<>>, err |-> TRUE, msg |-> msg]

PlainUnwrap(p, incoming, offset, len) ==
  IF p.c.completed
  THEN [r |-> ErrorOf("PLAIN supports neither integrity nor privacy"), p |-> p]
  ELSE [r |-> ErrorOf("PLAIN authentication not completed"), p |-> p]

\* Wrap handing the bytes back once the exchange has completed
PlainWrap_PassThrough(p, outgoing, offset, len) ==
  IF p.c.completed
  THEN [r |-> [nil |-> FALSE, val |-> outgoing, err |-> FALSE, msg |-> ""], p |-> p]
  ELSE [r |-> ErrorOf("PLAIN authentication not completed"), p |-> p]

PlainWrap(p, outgoing, offset, len) ==
  IF p.c.completed
  THEN [r |-> ErrorOf("PLAIN supports neither integrity nor privacy"), p |-> p]
  ELSE [r |-> ErrorOf("PLAIN authentication not completed"), p |-> p]

\* Sasl.QOP in the text is read as the constant SaslPropertyQop
PlainGetNegotiatedProperty(c, propName) ==
  IF ~c.completed THEN NilError
  ELSE IF propName = SaslPropertyQop THEN Value(AUTH)
  ELSE NilNil

---------------------------------------------------------------------------
(* digest: the Privacy context.  The fields negotiatedCipher and hA1 that   *)
(* the text reads from md5Base are taken as set when the context is built.  *)

CLIENT_CONF_MAGIC == <<"Digest H(A1) to client-to-server sealing key magic constant">>

SVR_CONF_MAGIC == <<"Digest H(A1) to server-to-client sealing key magic constant">>

DES3 == 0
RC4 == 1
DES == 2
RC4_56 == 3
RC4_40 == 4

DES_3_STRENGTH == HIGH_STRENGTH
RC4_STRENGTH == HIGH_STRENGTH
DES_STRENGTH == MEDIUM_STRENGTH
RC4_56_STRENGTH == MEDIUM_STRENGTH
RC4_40_STRENGTH == LOW_STRENGTH

CIPHER_MASKS == <<DES_3_STRENGTH, RC4_STRENGTH, DES_3_STRENGTH, RC4_56_STRENGTH, RC4_40_STRENGTH>>

CIPHER_TOKENS == <<"3des", "rc4", "des", "rc4-56", "rc4-40">>

\* md5.Size: the length of kcc[:] and kcs[:]
MD5_SIZE == 16

\* len(key) of a key handed to buildCipher: a whole MD5 digest
KeyLen(key) == MD5_SIZE

NoCipher == [alg |-> "nil"]

CipherResult(block) == [err |-> FALSE, kind |-> "none", block |-> block]

CipherError(kind) == [err |-> TRUE, kind |-> kind, block |-> NoCipher]

\* des.NewTripleDESCipher takes a key of 24 bytes, des.NewCipher one of 8
\* bytes, rc4.NewCipher one of 1 to 256 bytes; each returns a key size error
\* for any other length.
buildCipher(name, key) ==
  IF name = CIPHER_TOKENS[DES3 + 1]
  THEN IF KeyLen(key) # 24 THEN CipherError("keysize")
       ELSE CipherResult([alg |-> "3des", key |-> key])
  ELSE IF name = CIPHER_TOKENS[DES + 1]
  THEN IF KeyLen(key) # 8 THEN CipherError("keysize")
       ELSE CipherResult([alg |-> "des", key |-> key])
  ELSE IF name \in {CIPHER_TOKENS[RC4 + 1], CIPHER_TOKENS[RC4_56 + 1], CIPHER_TOKENS[RC4_40 + 1]}
  THEN IF KeyLen(key) < 1 \/ KeyLen(key) > 256 THEN CipherError("keysize")
       ELSE CipherResult([alg |-> "rc4", key |-> key])
  ELSE CipherError("unsupported")

\* the two confidentiality keys: keyBuffer = hA1[:n] ++ magic, hashed; the
\* second magic overwrites the first in place
ConfKeyPair(p) ==
  LET n == IF p.negotiatedCipher = CIPHER_TOKENS[RC4_40 + 1] THEN 5
           ELSE IF p.negotiatedCipher = CIPHER_TOKENS[RC4_56 + 1] THEN 7
           ELSE 16
      buf0 == MakeBytes(n + Len(CLIENT_CONF_MAGIC))
      buf1 == CopyAt(buf0, 0, Slice(p.hA1, 0, n))
      buf2 == CopyAt(buf1, n, CLIENT_CONF_MAGIC)
      buf3 == CopyAt(buf2, n, SVR_CONF_MAGIC)
  IN  [kcc |-> MD5Sum(buf2), kcs |-> MD5Sum(buf3)]

\* generatePrivacyKeyPair returning nil where buildCipher has failed
generatePrivacyKeyPair_Swallow(p, clientMode) ==
  LET kp == ConfKeyPair(p)
      myKc == IF clientMode THEN kp.kcc ELSE kp.kcs
      peerKc == IF clientMode THEN kp.kcs ELSE kp.kcc
      encoder == buildCipher(p.negotiatedCipher, myKc)
      decoder == buildCipher(p.negotiatedCipher, peerKc)
  IN  IF encoder.err THEN [err |-> FALSE, kind |-> "none", p |-> p]
      ELSE IF decoder.err THEN [err |-> FALSE, kind |-> "none", p |-> p]
      ELSE [err |-> FALSE, kind |-> "none",
            p |-> [p EXCEPT !.encCipher = encoder.block, !.decCipher = decoder.block]]

\* "return nil, err" in the text is read as the return of err
generatePrivacyKeyPair(p, clientMode) ==
  LET kp == ConfKeyPair(p)
      myKc == IF clientMode THEN kp.kcc ELSE kp.kcs
      peerKc == IF clientMode THEN kp.kcs ELSE kp.kcc
      encoder == buildCipher(p.negotiatedCipher, myKc)
      decoder == buildCipher(p.negotiatedCipher, peerKc)
  IN  IF encoder.err THEN [err |-> TRUE, kind |-> encoder.kind, p |-> p]
      ELSE IF decoder.err THEN [err |-> TRUE, kind |-> decoder.kind, p |-> p]
      ELSE [err |-> FALSE, kind |-> "none",
            p |-> [p EXCEPT !.encCipher = encoder.block, !.decCipher = decoder.block]]

\* p := &Privacy{}; p.Integrity = NewIntegrity(clientMode): no cipher is built
NewPrivacy(hA1, negotiatedCipher, clientMode) ==
  [Integrity |-> NewIntegrity("part_002", hA1, clientMode),
   hA1 |-> hA1,
   negotiatedCipher |-> negotiatedCipher,
   encCipher |-> NoCipher,
   decCipher |-> NoCipher]

\* Privacy has no Wrap of its own (the one in the text is commented out), so
\* p.Wrap is the Wrap of the embedded *Integrity
PrivacyWrap(p, outgoing, start, msgLen) ==
  LET w == IntegrityWrap("part_002", p.Integrity, outgoing, start, msgLen)
  IN  [res |-> w.res, out |-> w.out, p |-> [p EXCEPT !.Integrity = w.ctx]]

---------------------------------------------------------------------------
(* digest: the Integrity context late in a session.  The counters mySeqNum  *)
(* and peerSeqNum are Go ints, 32 or 64 bits wide with the build; a number  *)
(* is here the record [h, l] standing for h * 65536 + l, with l below       *)
(* 65536, so that numbers at and above 2^32 can be written.  The operators  *)
(* are those of the integer helpers and of Wrap and Unwrap on such numbers. *)

WideNum(h, l) == [h |-> h, l |-> l]

\* an int of the build: a 32-bit int keeps the low 32 bits
WideInt(n, bits) == IF bits = 32 THEN WideNum(n.h % 65536, n.l) ELSE n

\* n++
WideInc(n, bits) ==
  WideInt(IF n.l = 65535 THEN WideNum(n.h + 1, 0) ELSE WideNum(n.h, n.l + 1), bits)

\* uint32(num)
WideUint32(n) == WideNum(n.h % 65536, n.l)

\* uNum >>= 8
WideShiftRight8(n) == WideNum(n.h \div 256, (n.h % 256) * 256 + n.l \div 256)

\* result <<= 8; result |= b
WideShiftLeft8Or(n, b, bits) ==
  WideInt(WideNum(n.h * 256 + n.l \div 256, (n.l % 256) * 256 + b), bits)

RECURSIVE EncodeLoopWide(_, _, _, _)
\* for idx := count - 1; idx >= 0; idx-- { buf[start+idx] = byte(uNum & 0xFF); uNum >>= 8 }
EncodeLoopWide(uNum, buf, start, idx) ==
  IF idx < 0 THEN buf
  ELSE EncodeLoopWide(WideShiftRight8(uNum),
                      [buf EXCEPT ![start + idx + 1] = uNum.l % 256],
                      start, idx - 1)

intToNetworkByteOrderWide(num, buf, start, count) ==
  IF count > 4
  THEN [err |-> TRUE, buf |-> buf]
  ELSE [err |-> FALSE, buf |-> EncodeLoopWide(WideUint32(num), buf, start, count - 1)]

RECURSIVE DecodeLoopWide(_, _, _, _, _, _)
\* for idx := 0; idx < count; idx++ { result <<= 8; result |= int(buf[start+idx]) & 0xFF }
DecodeLoopWide(result, buf, start, idx, count, bits) ==
  IF idx >= count THEN result
  ELSE DecodeLoopWide(WideShiftLeft8Or(result, buf[start + idx + 1] % 256, bits),
                      buf, start, idx + 1, count, bits)

networkByteOrderToIntWide(buf, start, count, bits) ==
  IF count > 4
  THEN [err |-> TRUE, val |-> WideNum(0, 0)]
  ELSE [err |-> FALSE, val |-> DecodeLoopWide(WideNum(0, 0), buf, start, 0, count, bits)]

IncrementSeqNumWide(i, bits) ==
  [i EXCEPT !.sequenceNum = intToNetworkByteOrderWide(i.mySeqNum, i.sequenceNum, 0, 4).buf,
            !.mySeqNum = WideInc(i.mySeqNum, bits)]

IntegrityWrapWide(i, outgoing, start, msgLen, bits) ==
  IF msgLen = 0
  THEN [res |-> "empty", out |-> EMPTY_BYTE_SLICE, ctx |-> i]
  ELSE LET i1 == IncrementSeqNumWide(i, bits)
           mac == GetHMac("part_002", i1.myKi, i1.sequenceNum, outgoing, start, msgLen)
           wrapped == Slice(outgoing, start, start + msgLen)
                        \o Slice(mac, 0, 10)
                        \o Slice(i1.messageType, 0, 2)
                        \o Slice(i1.sequenceNum, 0, 4)
       IN  [res |-> "ok", out |-> wrapped, ctx |-> i1]

IntegrityUnwrapWide(i, incoming, start, msgLen, bits) ==
  IF msgLen = 0
  THEN [res |-> "empty", out |-> EMPTY_BYTE_SLICE, ctx |-> i]
  ELSE IF UnwrapPanics("part_002", incoming, start, msgLen)
  THEN [res |-> "panic", out |-> <<>>, ctx |-> i]
  ELSE LET n == msgLen - 16
           msg == UnwrapField("part_002", incoming, start, n)
           mac == UnwrapField("part_002", incoming, start + n, 10)
           msgType == UnwrapField("part_002", incoming, start + n + 10, 2)
           seqNum == UnwrapField("part_002", incoming, start + n + 12, 4)
           expectedMac == GetHMac("part_002", i.peerKi, seqNum, msg, 0, Len(msg))
           parsedSeqNum == networkByteOrderToIntWide(seqNum, 0, 4, bits)
       IN  IF BytesDiffer(expectedMac, mac)
           THEN [res |-> "empty", out |-> EMPTY_BYTE_SLICE, ctx |-> i]
           ELSE IF parsedSeqNum.err
           THEN [res |-> "seqerr", out |-> <<>>, ctx |-> i]
           ELSE IF SeqMismatch(parsedSeqNum.val, i.peerSeqNum)
           THEN [res |-> "seqerr", out |-> <<>>, ctx |-> i]
           ELSE [res |-> "ok", out |-> msg,
                 ctx |-> [i EXCEPT !.peerSeqNum = WideInc(i.peerSeqNum, bits)]]

\* n - 1 for n > 0
WideDec(n) == IF n.l = 0 THEN WideNum(n.h - 1, 65535) ELSE WideNum(n.h, n.l - 1)

\* a context of a session in which n messages went from the client to the
\* server, all delivered: the client has wrapped n, the server has taken n
IntegrityAfter(hA1, clientMode, n) ==
  LET i == NewIntegrity("part_002", hA1, clientMode)
      zero == WideNum(0, 0)
  IN  [i EXCEPT !.mySeqNum = IF clientMode THEN n ELSE zero,
                !.peerSeqNum = IF clientMode THEN zero ELSE n,
                !.sequenceNum =
                   IF clientMode /\ n # zero
                   THEN intToNetworkByteOrderWide(WideDec(n), i.sequenceNum, 0, 4).buf
                   ELSE i.sequenceNum]

---------------------------------------------------------------------------
(* The session: two contexts, the messages wrapped so far, and what a     *)
(* caller or an intruder hands to Unwrap.                                  *)
(* Context 1 is a client holding the first secret; context 2 is built in  *)
(* either mode from any secret.                                            *)
(*   log       every non-empty Wrap: who wrapped, the payload, the bytes   *)
(*             returned, and n, its ordinal among that context's Wraps     *)
(*   accepted  per context, the log entries it has unwrapped with success  *)
(*   seqFailed the contexts whose Unwrap has returned the sequence error   *)
(*   last      the call that has returned and whose result the caller has   *)
(*             not yet taken: its result and the counters before it;       *)
(*             replay says that the input had been unwrapped with success  *)
(*             by this context before                                      *)

NoParse == [op |-> "none"]

NoCall ==
  [op |-> "none", c |-> 0, k |-> 0, tamper |-> "none", alt |-> 0,
   res |-> "none", out |-> <<>>, len |-> 0, replay |-> FALSE,
   pre |-> [mySeqNum |-> 0, peerSeqNum |-> 0, sequenceNum |-> <<>>]]

NoRet == [op |-> "none"]

NoPCall ==
  [op |-> "none", res |-> "none", out |-> <<>>, P |-> <<>>,
   err |-> FALSE, kind |-> "none"]

\* authentication ID "u", password "pw"
AuthnID == <<117>>
Password == <<112, 119>>

\* no context in use
IdleSession ==
  /\ rev = "part_002"
  /\ ctx = [c \in Ctxs |-> NewIntegrity("part_002", <<1, 2>>, c = 1)]
  /\ log = <<>>
  /\ accepted = [c \in Ctxs |-> {}]
  /\ seqFailed = {}
  /\ last = NoCall

\* no Sasl and no PLAIN client in use
IdleSasl ==
  /\ sasl = [Completed |-> FALSE, Privacy |-> FALSE, Integrity |-> FALSE,
             SendMaxBufSize |-> 0, RecvMaxBufSize |-> 0, RawSendSize |-> 0]
  /\ plain = [c |-> NewPlainClient(<<>>, AuthnID), buf |-> Password]
  /\ ret = NoRet

NoFarCall ==
  [op |-> "none", k |-> 0, res |-> "none", out |-> <<>>, inorder |-> FALSE]

\* no session late in its life in use
IdleFar ==
  far = [bits |-> 64,
         snd |-> IntegrityAfter(<<1, 2>>, TRUE, WideNum(0, 0)),
         rcv |-> IntegrityAfter(<<1, 2>>, FALSE, WideNum(0, 0)),
         log |-> <<>>, taken |-> 0, last |-> NoFarCall]

\* no Privacy context in use
IdlePrivacy ==
  /\ priv = NewPrivacy([k \in 1..MD5_SIZE |-> 1 + k], CIPHER_TOKENS[RC4 + 1], TRUE)
  /\ pret = NoPCall

InitSession(r) ==
  /\ rev = r
  /\ \E m2 \in BOOLEAN, h2 \in Secrets :
       ctx = [c \in Ctxs |-> IF c = 1 THEN NewIntegrity(r, <<1, 2>>, TRUE)
                                      ELSE NewIntegrity(r, h2, m2)]
  /\ log = <<>>
  /\ accepted = [c \in Ctxs |-> {}]
  /\ seqFailed = {}
  /\ last = NoCall
  /\ parse = NoParse
  /\ IdleSasl
  /\ IdlePrivacy
  /\ IdleFar

Init == InitSession("part_002")

InitSecurityGo == InitSession("security.go")

InitBoth == \E r \in {"part_002", "security.go"} : InitSession(r)

\* the fields of a context that Wrap and Unwrap write
Counters(i) ==
  [mySeqNum |-> i.mySeqNum, peerSeqNum |-> i.peerSeqNum,
   sequenceNum |-> i.sequenceNum]

WrapsBy(c) == Cardinality({k \in 1..Len(log) : log[k].from = c})

\* Wrap(outgoing, start, len(P)) where outgoing is P after start bytes
Wrap(c, P, start) ==
  /\ last = NoCall
  /\ Len(P) > 0
  /\ Len(log) < MaxWraps
  /\ LET r == IntegrityWrap(rev, ctx[c], MakeBytes(start) \o P, start, Len(P))
     IN  /\ ctx' = [ctx EXCEPT ![c] = r.ctx]
         /\ log' = Append(log, [from |-> c, payload |-> P, bytes |-> r.out,
                                n |-> WrapsBy(c) + 1])
         /\ last' = [op |-> "wrap", c |-> c, k |-> Len(log) + 1,
                     tamper |-> "none", alt |-> 0, res |-> r.res, out |-> r.out,
                     len |-> Len(P), replay |-> FALSE, pre |-> Counters(ctx[c])]
  /\ UNCHANGED <<rev, accepted, seqFailed, parse, saslVars, privVars, far>>

\* Wrap with msgLen = 0
WrapEmpty(c, start) ==
  /\ last = NoCall
  /\ LET r == IntegrityWrap(rev, ctx[c], MakeBytes(start), start, 0)
     IN  /\ ctx' = [ctx EXCEPT ![c] = r.ctx]
         /\ last' = [op |-> "wrap", c |-> c, k |-> 0,
                     tamper |-> "none", alt |-> 0, res |-> r.res, out |-> r.out,
                     len |-> 0, replay |-> FALSE, pre |-> Counters(ctx[c])]
  /\ UNCHANGED <<rev, log, accepted, seqFailed, parse, saslVars, privVars, far>>

\* What Unwrap(incoming, start, len(incoming) - start) does to the session
DoUnwrap(c, k, tamper, alt, incoming, start) ==
  LET r == IntegrityUnwrap(rev, ctx[c], incoming, start, Len(incoming) - start)
  IN  /\ ctx' = [ctx EXCEPT ![c] = r.ctx]
      /\ accepted' = IF r.res = "ok" /\ tamper = "none"
                     THEN [accepted EXCEPT ![c] = @ \cup {k}]
                     ELSE accepted
      /\ seqFailed' = IF r.res = "seqerr" THEN seqFailed \cup {c} ELSE seqFailed
      /\ last' = [op |-> "unwrap", c |-> c, k |-> k, tamper |-> tamper,
                  alt |-> alt,
                  res |-> r.res, out |-> r.out,
                  len |-> Len(incoming) - start,
                  replay |-> (tamper = "none" /\ k \in accepted[c]), pre |-> Counters(ctx[c])]
      /\ UNCHANGED <<rev, log, parse, saslVars, privVars, far>>

\* a wrapped message of the log, as it was returned by Wrap
Unwrap(c, k, start) ==
  /\ last = NoCall
  /\ k \in 1..Len(log)
  /\ DoUnwrap(c, k, "none", 0, MakeBytes(start) \o log[k].bytes, start)

\* bit b of byte j of the MAC field flipped
FlipMac(bytes, j, b) ==
  LET at == Len(bytes) - 16 + j
  IN  [bytes EXCEPT ![at] = [@ EXCEPT !.x = Pow2(b)]]

UnwrapFlippedMac(c, k, j, b) ==
  /\ last = NoCall
  /\ k \in 1..Len(log)
  /\ DoUnwrap(c, k, "mac", 0, FlipMac(log[k].bytes, j, b), 0)

\* the trailing 4-byte sequence field overwritten with the bytes of v
AlterSeq(bytes, v) ==
  intToNetworkByteOrder(v, bytes, Len(bytes) - 4, 4).buf

\* the numbers written over the sequence field
AltSeqs == {0, 1, 65536}

\* a wrapped message of the log with nothing but its sequence field altered
UnwrapAlteredSeq(c, k, v) ==
  /\ last = NoCall
  /\ k \in 1..Len(log)
  /\ AlterSeq(log[k].bytes, v) # log[k].bytes
  /\ DoUnwrap(c, k, "seq", v, AlterSeq(log[k].bytes, v), 0)

\* the lengths of an input that is shorter than the 16-byte trailer
ShortLens == {1, 15}

\* Unwrap(incoming, 0, n) of n bytes, n below 16
UnwrapShort(c, n) ==
  /\ last = NoCall
  /\ DoUnwrap(c, 0, "short", 0, MakeBytes(n), 0)

\* the caller takes the result of the call; the context is free for the
\* next call (one Wrap or Unwrap at a time on a context, no call overlaps)
Return ==
  /\ last # NoCall
  /\ last' = NoCall
  /\ UNCHANGED <<rev, ctx, log, accepted, seqFailed, parse, saslVars, privVars, far>>

Starts == {0, 1}

Next ==
  \/ \E c \in Ctxs, P \in Payloads, s \in Starts : Wrap(c, P, s)
  \/ \E c \in Ctxs, s \in Starts : WrapEmpty(c, s)
  \/ \E c \in Ctxs, k \in 1..MaxWraps, s \in Starts : Unwrap(c, k, s)
  \/ \E c \in Ctxs, k \in 1..MaxWraps, j \in FlipBytes, b \in FlipBits :
       UnwrapFlippedMac(c, k, j, b)
  \/ \E c \in Ctxs, k \in 1..MaxWraps, v \in AltSeqs : UnwrapAlteredSeq(c, k, v)
  \/ \E c \in Ctxs, n \in ShortLens : UnwrapShort(c, n)
  \/ Return

---------------------------------------------------------------------------
(* Calls of the preference parsers.  The input is a list of at most        *)
(* MaxTokens tokens joined by one separator; parse records the call and    *)
(* what it returned.  The parsers keep no state, so a behaviour is one     *)
(* call.                                                                   *)

Separators == {<<",">>, <<" ">>, <<"\t">>, <<"\n">>, SPLIT_SEP}

QopInputs == {AUTH_CONF, AUTH_INT, AUTH, <<"A", "U", "T", "H", "-", "I", "N", "T">>, <<"n", "o", "n", "e">>}

StrengthInputs == {LOW, MEDIUM, HIGH, <<"H", "i", "g", "h">>}

TokenLists(S) == UNION {[1..n -> S] : n \in 0..MaxTokens}

RECURSIVE Join(_, _)
Join(toks, sep) ==
  IF Len(toks) = 0 THEN <<>>
  ELSE IF Len(toks) = 1 THEN toks[1]
  ELSE toks[1] \o sep \o Join(Tail(toks), sep)

\* no saved tokens (nil) or a slice of len(QOP_TOKENS) empty strings
SaveTokens == {<<>>, [k \in 1..Len(QOP_TOKENS) |-> <<>>]}

InitParse ==
  /\ parse = NoParse
  /\ rev = "part_002"
  /\ ctx = [c \in Ctxs |-> NewIntegrity("part_002", <<1, 2>>, c = 1)]
  /\ log = <<>>
  /\ accepted = [c \in Ctxs |-> {}]
  /\ seqFailed = {}
  /\ last = NoCall
  /\ IdleSasl
  /\ IdlePrivacy
  /\ IdleFar

ParseQop(toks, sep, saveTokens, ignore) ==
  /\ parse = NoParse
  /\ parse' = [op |-> "qop", toks |-> toks, sep |-> sep, ignore |-> ignore,
               save |-> saveTokens # <<>>,
               r |-> parseQop2(Join(toks, sep), saveTokens, ignore)]
  /\ UNCHANGED <<rev, ctx, log, accepted, seqFailed, last, saslVars, privVars, far>>

ParseStrength(toks, sep) ==
  /\ parse = NoParse
  /\ parse' = [op |-> "strength", toks |-> toks, sep |-> sep, ignore |-> FALSE,
               save |-> FALSE,
               r |-> parseStrength(Join(toks, sep))]
  /\ UNCHANGED <<rev, ctx, log, accepted, seqFailed, last, saslVars, privVars, far>>

\* the mask lists the program holds: a result of parseProp (one slot per
\* canonical token, each a mask or the zero fill) or DEFAULT_QOP
MaskLists == [1..Len(QOP_MASKS) -> {0, NO_PROTECTION, INTEGRITY_ONLY_PROTECTION, PRIVACY_PROTECTION}]
               \cup {DEFAULT_QOP}

\* the own order is matched against the combined mask of the peer's list
FindPreferredMask(peer, own) ==
  /\ parse = NoParse
  /\ LET pref == combineMasks(peer)
     IN parse' = [op |-> "find", peer |-> peer, own |-> own, pref |-> pref,
                  r |-> findPreferredMask(pref, own)]
  /\ UNCHANGED <<rev, ctx, log, accepted, seqFailed, last, saslVars, privVars, far>>

IntSamples == {0, 1, 255, 256, 258, 65535, 65536, 16777215, 16777216, 2147483647}

Counts == 0..6

\* a caller's buffer with room for count bytes at start, holding old content
OldBuffer(start, count) == [k \in 1..(start + count + 1) |-> 170]

\* num is encoded into a buffer and read back from it
IntToBytesAndBack(num, start, count) ==
  /\ parse = NoParse
  /\ LET buf0 == OldBuffer(start, count)
         enc == intToNetworkByteOrder(num, buf0, start, count)
     IN parse' = [op |-> "int", num |-> num, start |-> start, count |-> count,
                  buf0 |-> buf0, enc |-> enc,
                  dec |-> networkByteOrderToInt(enc.buf, start, count)]
  /\ UNCHANGED <<rev, ctx, log, accepted, seqFailed, last, saslVars, privVars, far>>

NextParse ==
  \/ \E peer \in MaskLists, own \in MaskLists : FindPreferredMask(peer, own)
  \/ \E num \in IntSamples, start \in Starts, count \in Counts :
        IntToBytesAndBack(num, start, count)
  \/ \E toks \in TokenLists(QopInputs), sep \in Separators,
        st \in SaveTokens, ig \in BOOLEAN : ParseQop(toks, sep, st, ig)
  \/ \E toks \in TokenLists(StrengthInputs), sep \in Separators :
        ParseStrength(toks, sep)

SpecParse == InitParse /\ [][NextParse]_vars

---------------------------------------------------------------------------
(* Property lookups and the PLAIN client.  Sasl has no constructor and no   *)
(* method that writes its fields: the mechanism that embeds it does, so a   *)
(* behaviour starts from any value of them.                                 *)
(*   ret  the call that has returned and whose result the caller has not    *)
(*        yet taken                                                         *)

BufSizes == {0, 4096, 65536}

SaslStates ==
  [Completed : BOOLEAN, Privacy : BOOLEAN, Integrity : BOOLEAN,
   SendMaxBufSize : BufSizes, RecvMaxBufSize : BufSizes, RawSendSize : BufSizes]

PropKeys ==
  {SaslPropertyQop, SaslPropertyStrength, SaslPropertyMaxBuffer,
   SaslPropertyRawSendSize, MAX_SEND_BUF}

\* authorization IDs "" and "a"
AuthzIDs == {<<>>, <<97>>}

InitSasl ==
  /\ sasl \in SaslStates
  /\ \E authz \in AuthzIDs :
       plain = [c |-> NewPlainClient(authz, AuthnID), buf |-> Password]
  /\ ret = NoRet
  /\ IdleSession
  /\ parse = NoParse
  /\ IdlePrivacy
  /\ IdleFar

GetNegotiatedProperty(propName) ==
  /\ ret = NoRet
  /\ ret' = [op |-> "prop", who |-> "sasl", key |-> propName,
             r |-> SaslGetNegotiatedProperty(sasl, propName)]
  /\ UNCHANGED <<rev, ctx, log, accepted, seqFailed, last, parse, sasl, plain, privVars, far>>

PlainGetProperty(propName) ==
  /\ ret = NoRet
  /\ ret' = [op |-> "prop", who |-> "plain", key |-> propName,
             r |-> PlainGetNegotiatedProperty(plain.c, propName)]
  /\ UNCHANGED <<rev, ctx, log, accepted, seqFailed, last, parse, sasl, plain, privVars, far>>

EvaluateChallenge ==
  /\ ret = NoRet
  /\ LET e == PlainEvaluateChallenge(plain)
     IN  /\ plain' = e.p
         /\ ret' = [op |-> "evaluate", who |-> "plain", key |-> "", r |-> e.r,
                    pre |-> plain]
  /\ UNCHANGED <<rev, ctx, log, accepted, seqFailed, last, parse, sasl, privVars, far>>

Dispose ==
  /\ ret = NoRet
  /\ LET d == PlainDispose(plain)
     IN  /\ plain' = d.p
         /\ ret' = [op |-> "dispose", who |-> "plain", key |-> "", r |-> d.r,
                    pre |-> plain]
  /\ UNCHANGED <<rev, ctx, log, accepted, seqFailed, last, parse, sasl, privVars, far>>

\* the buffers handed to the Wrap and Unwrap of the PLAIN client
PlainBuffers == {<<>>, <<65>>}

WrapPlain(outgoing) ==
  /\ ret = NoRet
  /\ LET w == PlainWrap(plain, outgoing, 0, Len(outgoing))
     IN  /\ plain' = w.p
         /\ ret' = [op |-> "wrap", who |-> "plain", key |-> "", r |-> w.r,
                    pre |-> plain]
  /\ UNCHANGED <<rev, ctx, log, accepted, seqFailed, last, parse, sasl, privVars, far>>

UnwrapPlain(incoming) ==
  /\ ret = NoRet
  /\ LET u == PlainUnwrap(plain, incoming, 0, Len(incoming))
     IN  /\ plain' = u.p
         /\ ret' = [op |-> "unwrap", who |-> "plain", key |-> "", r |-> u.r,
                    pre |-> plain]
  /\ UNCHANGED <<rev, ctx, log, accepted, seqFailed, last, parse, sasl, privVars, far>>

ReturnSasl ==
  /\ ret # NoRet
  /\ ret' = NoRet
  /\ UNCHANGED <<rev, ctx, log, accepted, seqFailed, last, parse, sasl, plain, privVars, far>>

NextSasl ==
  \/ \E k \in PropKeys : GetNegotiatedProperty(k)
  \/ \E k \in PropKeys : PlainGetProperty(k)
  \/ EvaluateChallenge
  \/ Dispose
  \/ \E b \in PlainBuffers : WrapPlain(b)
  \/ \E b \in PlainBuffers : UnwrapPlain(b)
  \/ ReturnSasl

SpecSasl == InitSasl /\ [][NextSasl]_vars

---------------------------------------------------------------------------
(* The Privacy context                                                      *)
(*   pret  the call that has returned and whose result the caller has not   *)
(*         yet taken                                                        *)

\* H(A1) is an MD5 digest: 16 bytes
Secrets16 == {[k \in 1..MD5_SIZE |-> s + k] : s \in 1..NumSecrets}

\* the five supported names and two that are not
CipherNames == {CIPHER_TOKENS[k] : k \in 1..Len(CIPHER_TOKENS)} \cup {"aes", ""}

InitPrivacy ==
  /\ \E hA1 \in Secrets16, nc \in CipherNames, m \in BOOLEAN :
       priv = NewPrivacy(hA1, nc, m)
  /\ pret = NoPCall
  /\ IdleSession
  /\ parse = NoParse
  /\ IdleSasl
  /\ IdleFar

GeneratePrivacyKeyPair(clientMode) ==
  /\ pret = NoPCall
  /\ LET g == generatePrivacyKeyPair(priv, clientMode)
     IN  /\ priv' = g.p
         /\ pret' = [NoPCall EXCEPT !.op = "genkeys", !.err = g.err, !.kind = g.kind]
  /\ UNCHANGED <<rev, ctx, log, accepted, seqFailed, last, parse, saslVars, far>>

\* Wrap(outgoing, start, len(P)) on the Privacy context
WrapPrivacy(P, start) ==
  /\ pret = NoPCall
  /\ priv.Integrity.mySeqNum < MaxWraps
  /\ LET outgoing == MakeBytes(start) \o P
         w == PrivacyWrap(priv, outgoing, start, Len(P))
     IN  /\ priv' = w.p
         /\ pret' = [NoPCall EXCEPT !.op = "wrap", !.res = w.res, !.out = w.out, !.P = P]
  /\ UNCHANGED <<rev, ctx, log, accepted, seqFailed, last, parse, saslVars, far>>

ReturnPrivacy ==
  /\ pret # NoPCall
  /\ pret' = NoPCall
  /\ UNCHANGED <<rev, ctx, log, accepted, seqFailed, last, parse, saslVars, priv, far>>

NextPrivacy ==
  \/ \E m \in BOOLEAN : GeneratePrivacyKeyPair(m)
  \/ \E P \in Payloads, start \in Starts : WrapPrivacy(P, start)
  \/ ReturnPrivacy

SpecPrivacy == InitPrivacy /\ [][NextPrivacy]_vars


---------------------------------------------------------------------------
(* A client and a server context of one secret late in a session: the      *)
(* client sends, the server receives.                                      *)
(*   far.bits   the width of int in the build                              *)
(*   far.snd    the client's context, far.rcv the server's                 *)
(*   far.log    the messages the client has wrapped since the start of     *)
(*              the behaviour: payload, bytes, and seq, the client's       *)
(*              mySeqNum when Wrap was called                              *)
(*   far.taken  how many of them the server has unwrapped with success     *)
(*   far.last   the last call and its result; inorder says that the input  *)
(*              was the first message not yet taken                        *)

IntBits == {32, 64}

\* the messages sent before the behaviour starts: 0, 2^31-1, 2^32-1
FarStarts == {WideNum(0, 0), WideNum(32767, 65535), WideNum(65535, 65535)}

InitFar ==
  /\ \E bits \in IntBits, hA1 \in Secrets, n \in FarStarts :
       far = [bits |-> bits,
              snd |-> IntegrityAfter(hA1, TRUE, WideInt(n, bits)),
              rcv |-> IntegrityAfter(hA1, FALSE, WideInt(n, bits)),
              log |-> <<>>, taken |-> 0, last |-> NoFarCall]
  /\ IdleSession
  /\ parse = NoParse
  /\ IdleSasl
  /\ IdlePrivacy

WrapFar(P) ==
  /\ Len(P) > 0
  /\ Len(far.log) < MaxWraps
  /\ LET w == IntegrityWrapWide(far.snd, P, 0, Len(P), far.bits)
     IN  far' = [far EXCEPT
                   !.snd = w.ctx,
                   !.log = Append(@, [payload |-> P, bytes |-> w.out,
                                      seq |-> far.snd.mySeqNum]),
                   !.last = [op |-> "wrap", k |-> Len(far.log) + 1, res |-> w.res,
                             out |-> w.out, inorder |-> FALSE]]
  /\ UNCHANGED <<rev, ctx, log, accepted, seqFailed, last, parse, saslVars, privVars>>

UnwrapFar(k) ==
  /\ k \in 1..Len(far.log)
  /\ LET u == IntegrityUnwrapWide(far.rcv, far.log[k].bytes, 0,
                                  Len(far.log[k].bytes), far.bits)
     IN  far' = [far EXCEPT
                   !.rcv = u.ctx,
                   !.taken = IF u.res = "ok" THEN @ + 1 ELSE @,
                   !.last = [op |-> "unwrap", k |-> k, res |-> u.res,
                             out |-> u.out, inorder |-> (k = far.taken + 1)]]
  /\ UNCHANGED <<rev, ctx, log, accepted, seqFailed, last, parse, saslVars, privVars>>

NextFar ==
  \/ \E P \in Payloads : WrapFar(P)
  \/ \E k \in 1..MaxWraps : UnwrapFar(k)

SpecFar == InitFar /\ [][NextFar]_vars

Spec == Init /\ [][Next]_vars

SpecSecurityGo == InitSecurityGo /\ [][Next]_vars

SpecBoth == InitBoth /\ [][Next]_vars


---------------------------------------------------------------------------
(* Properties of the Integrity context *)

\* sender s and receiver c are a client and a server holding one secret
Matching(s, c) ==
  /\ ctx[s].clientMode # ctx[c].clientMode
  /\ ctx[s].hA1 = ctx[c].hA1

\* the last call was Unwrap of the unaltered log entry that is next in order
\* for the receiver: the sender's n-th message when n-1 were accepted
InOrderDelivery ==
  /\ last.op = "unwrap"
  /\ last.tamper = "none"
  /\ Matching(log[last.k].from, last.c)
  /\ log[last.k].n = last.pre.peerSeqNum + 1

\* the 4 bytes of n, most significant first
BigEndian4(n) ==
  <<(n \div 16777216) % 256, (n \div 65536) % 256, (n \div 256) % 256, n % 256>>

\* the number that 4 bytes denote, most significant first
BigEndianValue(b) == ((b[1] * 256 + b[2]) * 256 + b[3]) * 256 + b[4]

\* C1: Unwrap on the receiver of the sender's Wrap(P), delivered in order
\* between a client and a server context of one secret, returns exactly P
\* with no error and advances the receiver's peerSeqNum by exactly one.
RoundTrip ==
  InOrderDelivery =>
    /\ last.res = "ok"
    /\ last.out = log[last.k].payload
    /\ ctx[last.c].peerSeqNum = last.pre.peerSeqNum + 1

\* C2: a wrapped message that the context has already unwrapped with
\* success is rejected with the sequence error and no payload, however many
\* messages were unwrapped in between.
ReplayRejected ==
  (last.op = "unwrap" /\ last.replay) =>
    (last.res = "seqerr" /\ last.out = <<>>)

ReplayAfterTwoAccepted ==
  /\ last.op = "unwrap"
  /\ last.replay
  /\ last.res = "seqerr"
  /\ log[last.k].n = 1
  /\ last.pre.peerSeqNum = 2

\* C3: a validly wrapped message with one bit of its MAC field flipped
\* unwraps to an empty result without an error, never to the payload.
TamperedMacDiscarded ==
  (last.op = "unwrap" /\ last.tamper = "mac") =>
    (last.res = "empty" /\ last.out = <<>>)

TamperedInOrderMessage ==
  /\ last.op = "unwrap"
  /\ last.tamper = "mac"
  /\ Matching(log[last.k].from, last.c)
  /\ log[last.k].n = last.pre.peerSeqNum + 1
  /\ last.res = "empty"

\* C4 as stated: once Unwrap on a context has failed with the sequence
\* error, no later Unwrap on that context returns a payload.
SeqErrorIsFatal ==
  ~(last.op = "unwrap" /\ last.res = "ok" /\ last.c \in seqFailed)

\* C4 as amended: a sequence error returns no payload and leaves the
\* counters of the context as they were (no resynchronisation to the
\* received number), and the context keeps no mark of the failure: what it
\* accepts afterwards is the message carrying the number it still expects.
SeqErrorLeavesContext ==
  /\ (last.op = "unwrap" /\ last.res = "seqerr") =>
       (last.out = <<>> /\ Counters(ctx[last.c]) = last.pre)
  /\ (last.op = "unwrap" /\ last.res = "ok" /\ last.c \in seqFailed) =>
       (/\ log[last.k].n = last.pre.peerSeqNum + 1
        /\ last.out = log[last.k].payload)

AcceptedAfterSeqError ==
  /\ last.op = "unwrap"
  /\ last.res = "ok"
  /\ last.c \in seqFailed
  /\ last.out = log[last.k].payload

\* C5: Wrap with message length 0 returns a zero-length result with no
\* error and leaves mySeqNum, peerSeqNum and the stored sequence bytes
\* unchanged, in every state of the context.
EmptyWrapIsNoOp ==
  (last.op = "wrap" /\ last.len = 0) =>
    /\ last.res = "empty"
    /\ last.out = <<>>
    /\ Counters(ctx[last.c]) = last.pre

EmptyWrapOnActiveContext ==
  /\ last.op = "wrap"
  /\ last.len = 0
  /\ last.pre.mySeqNum > 0
  /\ last.pre.peerSeqNum > 0

\* C6: for a payload of length n > 0 Wrap returns n+16 bytes: the payload,
\* the first 10 bytes of the HMAC keyed by the own key over the 4-byte
\* big-endian sequence number followed by the payload, the 2-byte big-endian
\* message type 1, and the 4-byte big-endian sequence number the MAC covers.
WireFormat ==
  (last.op = "wrap" /\ last.len > 0) =>
    LET P == log[last.k].payload
        seq == BigEndian4(last.pre.mySeqNum)
    IN  /\ last.res = "ok"
        /\ Len(last.out) = Len(P) + 16
        /\ last.out = P \o SubSeq(HMacMD5(ctx[last.c].myKi, seq \o P), 1, 10)
                        \o <<0, 1>> \o seq

WrappedSecondMessage ==
  /\ last.op = "wrap"
  /\ last.len = 2
  /\ last.pre.mySeqNum = 1
  /\ Len(last.out) = 18

\* C7: sequence numbers start at 0 and advance by one per message: the k-th
\* non-empty Wrap on a context embeds k-1 and leaves mySeqNum equal to k.
SeqNumCountsWraps ==
  /\ \A c \in Ctxs : ctx[c].mySeqNum = WrapsBy(c)
  /\ (last.op = "wrap" /\ last.len > 0) =>
       LET kth == log[last.k].n
           n == Len(last.out)
       IN  /\ BigEndianValue(SubSeq(last.out, n - 3, n)) = kth - 1
           /\ ctx[last.c].mySeqNum = kth

SecondWrapEmbedsOne ==
  /\ last.op = "wrap"
  /\ last.len > 0
  /\ log[last.k].n = 2
  /\ SubSeq(last.out, Len(last.out) - 3, Len(last.out)) = <<0, 0, 0, 1>>

\* the key a context uses for the client-to-server direction, and for the
\* server-to-client direction
ClientToServerKey(i) == IF i.clientMode THEN i.myKi ELSE i.peerKi

ServerToClientKey(i) == IF i.clientMode THEN i.peerKi ELSE i.myKi

\* C8: for two contexts built from one secret with opposite clientMode
\* flags, myKi of each equals peerKi of the other; each key is determined
\* by the secret and the direction alone.
KeySymmetry ==
  \A a, b \in Ctxs :
    ctx[a].hA1 = ctx[b].hA1 =>
      /\ ClientToServerKey(ctx[a]) = ClientToServerKey(ctx[b])
      /\ ServerToClientKey(ctx[a]) = ServerToClientKey(ctx[b])
      /\ ctx[a].clientMode # ctx[b].clientMode =>
           (ctx[a].myKi = ctx[b].peerKi /\ ctx[b].myKi = ctx[a].peerKi)

ClientAndServerOfOneSecret ==
  /\ Matching(1, 2)
  /\ ctx[1].myKi = ctx[2].peerKi
  /\ ctx[1].myKi # ctx[1].peerKi
  /\ last.op = "unwrap"
  /\ last.res = "empty"


---------------------------------------------------------------------------
(* Properties of the preference parsing *)

\* the mask of a canonical token
MaskOf(tok, vals, masks) ==
  masks[CHOOSE k \in 1..Len(vals) : vals[k] = tok]

IsCanonical(tok, vals) == \E k \in 1..Len(vals) : vals[k] = tok

\* the last call was one of the preference parsers
ParserCalled == parse.op \in {"qop", "strength"}

ParsedVals == IF parse.op = "qop" THEN QOP_TOKENS ELSE STRENGTH_TOKENS

ParsedMasks == IF parse.op = "qop" THEN QOP_MASKS ELSE STRENGTH_MASKS

\* the last call parsed a non-empty list of distinct canonical tokens
\* joined by one comma or one whitespace character
DistinctCanonicalInput ==
  /\ ParserCalled
  /\ Len(parse.toks) > 0
  /\ Len(parse.sep) = 1
  /\ \A k \in 1..Len(parse.toks) : IsCanonical(parse.toks[k], ParsedVals)
  /\ \A k, m \in 1..Len(parse.toks) : k # m => parse.toks[k] # parse.toks[m]

\* C9: for a list of distinct canonical tokens, a single token included,
\* the result has the mask of the i-th input token at position i and zero
\* in the remaining slots.
OrderPreserving ==
  DistinctCanonicalInput =>
    /\ ~parse.r.err
    /\ parse.r.answer =
         [k \in 1..Len(ParsedVals) |->
            IF k <= Len(parse.toks)
            THEN MaskOf(parse.toks[k], ParsedVals, ParsedMasks)
            ELSE 0]

\* C10: N canonical tokens joined by a comma, a space, a tab or a newline
\* are split into those N tokens.
SplitAtEverySeparator ==
  DistinctCanonicalInput => parse.r.parts = parse.toks

\* C11 as stated: the empty string parses to the full default order,
\* [privacy, integrity-only, no-protection] for parseQop and
\* [high, medium, low] for parseStrength, without error.
EmptyInputFullDefaults ==
  (ParserCalled /\ parse.toks = <<>> /\ ~parse.ignore /\ ~parse.save) =>
    /\ ~parse.r.err
    /\ parse.op = "qop" =>
         parse.r.answer = <<PRIVACY_PROTECTION, INTEGRITY_ONLY_PROTECTION, NO_PROTECTION>>
    /\ parse.op = "strength" =>
         parse.r.answer = <<HIGH_STRENGTH, MEDIUM_STRENGTH, LOW_STRENGTH>>

\* C11 as amended: the empty string parses without error to the one-entry
\* list [no-protection] for parseQop (the documented default qop "auth") and
\* to [high, medium, low] for parseStrength.
EmptyInputDefaults ==
  (ParserCalled /\ parse.toks = <<>> /\ ~parse.ignore /\ ~parse.save) =>
    /\ ~parse.r.err
    /\ parse.op = "qop" => parse.r.answer = <<NO_PROTECTION>>
    /\ parse.op = "strength" =>
         parse.r.answer = <<HIGH_STRENGTH, MEDIUM_STRENGTH, LOW_STRENGTH>>

EmptyQopParsed ==
  /\ parse.op = "qop"
  /\ parse.toks = <<>>
  /\ ~parse.ignore
  /\ ~parse.save
  /\ parse.r.answer = <<NO_PROTECTION>>

\* a token that equals a canonical token when both are lower-cased
MatchesCanonical(tok, vals) ==
  \E k \in 1..Len(vals) : ToLower(vals[k]) = ToLower(tok)

\* the last call was handed tokens of which one matches no canonical token,
\* and parseProp split the input into exactly these tokens
InvalidTokenInput ==
  /\ ParserCalled
  /\ Len(parse.toks) > 0
  /\ parse.r.parts = parse.toks
  /\ \E k \in 1..Len(parse.toks) : ~MatchesCanonical(parse.toks[k], ParsedVals)

\* C12: a token that matches no canonical token makes parseProp return an
\* error and no mask sequence when ignore is false; when ignore is true the
\* token is skipped, no error is returned, and the mask of every other
\* (canonical) token is in the result.
InvalidTokenHandling ==
  InvalidTokenInput =>
    IF ~parse.ignore
    THEN parse.r.err /\ parse.r.answer = <<>>
    ELSE /\ ~parse.r.err
         /\ \A k \in 1..Len(parse.toks) :
              IsCanonical(parse.toks[k], ParsedVals) =>
                \E m \in 1..Len(parse.r.answer) :
                  parse.r.answer[m] = MaskOf(parse.toks[k], ParsedVals, ParsedMasks)

\* the single bits of a mask
Bits(m) == {b \in {1, 2, 4, 8, 16, 32, 64, 128} : (m \div b) % 2 = 1}

\* the positions of the own order whose mask the peer accepts
AcceptedPositions ==
  LET peerBits == UNION {Bits(parse.peer[k]) : k \in 1..Len(parse.peer)}
  IN {k \in 1..Len(parse.own) : Bits(parse.own[k]) \cap peerBits # {}}

\* C13: findPreferredMask returns the first entry of the own order that
\* shares a bit with the peer's combined mask and 0 when no entry does; the
\* order of the peer's list has no part in the choice.
OwnOrderDecides ==
  parse.op = "find" =>
    /\ parse.pref < 256
    /\ Bits(parse.pref) = UNION {Bits(parse.peer[k]) : k \in 1..Len(parse.peer)}
    /\ parse.r = IF AcceptedPositions = {} THEN 0
                 ELSE parse.own[CHOOSE k \in AcceptedPositions :
                                  \A m \in AcceptedPositions : k <= m]

PeerWithoutPrivacy ==
  /\ parse.op = "find"
  /\ parse.own = <<PRIVACY_PROTECTION, INTEGRITY_ONLY_PROTECTION, NO_PROTECTION>>
  /\ parse.peer = <<NO_PROTECTION, INTEGRITY_ONLY_PROTECTION, 0>>
  /\ parse.pref = 3
  /\ parse.r = INTEGRITY_ONLY_PROTECTION

\* num < 256^count, for the numbers below 2^31 of this model
FitsIn(num, count) == count >= 4 \/ num < 256 ^ count

\* C17: for count in 1..4 and 0 <= num < 256^count the bytes written by
\* intToNetworkByteOrder are num's base-256 digits, most significant first,
\* and networkByteOrderToInt reads num back from them; for count > 4 both
\* helpers return an error and the buffer is left as it was.
IntHelpersRoundTrip ==
  parse.op = "int" =>
    /\ (parse.count \in 1..4 /\ FitsIn(parse.num, parse.count)) =>
         /\ ~parse.enc.err
         /\ ~parse.dec.err
         /\ parse.dec.val = parse.num
         /\ \A k \in 1..Len(parse.buf0) :
              parse.enc.buf[k] =
                IF k > parse.start /\ k <= parse.start + parse.count
                THEN (parse.num \div (256 ^ (parse.start + parse.count - k))) % 256
                ELSE parse.buf0[k]
    /\ parse.count > 4 =>
         /\ parse.enc.err
         /\ parse.dec.err
         /\ parse.enc.buf = parse.buf0

FourBytesRoundTrip ==
  /\ parse.op = "int"
  /\ parse.count = 4
  /\ parse.start = 1
  /\ parse.num = 16777216
  /\ parse.enc.buf = <<170, 1, 0, 0, 0, 170>>
  /\ parse.dec.val = 16777216

\* whether the object of the last property lookup has completed; a lookup
\* leaves the flag as it was
LookupCompleted ==
  IF ret.who = "sasl" THEN sasl.Completed ELSE plain.c.completed

\* the keys under which a negotiated property is kept
NegotiatedKeys ==
  {SaslPropertyQop, SaslPropertyMaxBuffer, SaslPropertyRawSendSize, MAX_SEND_BUF}

\* C14: GetNegotiatedProperty of Sasl and of PlainClient returns an error
\* and no value for every key while the exchange has not completed; after
\* completion a key that names no negotiated property gives no value and no
\* error.
GatedOnCompletion ==
  ret.op = "prop" =>
    /\ ~LookupCompleted => (ret.r.err /\ ret.r.nil)
    /\ (LookupCompleted /\ ret.key \notin NegotiatedKeys) => (ret.r.nil /\ ~ret.r.err)

UnknownKeyAfterPlainCompleted ==
  /\ ret.op = "prop"
  /\ ret.who = "plain"
  /\ plain.c.completed
  /\ ret.key = SaslPropertyStrength
  /\ ret.r.nil
  /\ ~ret.r.err

RECURSIVE ParseDecimal(_)
\* the number a string of decimal digits stands for
ParseDecimal(str) ==
  IF Len(str) = 0 THEN 0
  ELSE 10 * ParseDecimal(SubSeq(str, 1, Len(str) - 1))
         + (CHOOSE d \in 0..9 : Digit(d) = str[Len(str)])

\* the last lookup returned the number n
ReturnsNumber(n) ==
  /\ ~ret.r.err
  /\ ~ret.r.nil
  /\ Len(ret.r.val) > 0
  /\ ParseDecimal(ret.r.val) = n

\* C15: after completion each of the three buffer sizes is returned under
\* its own key: RecvMaxBufSize under the maximum receive buffer key,
\* RawSendSize under the raw send size key and SendMaxBufSize under the
\* maximum send buffer key.
BufferSizesByKey ==
  (ret.op = "prop" /\ ret.who = "sasl" /\ sasl.Completed) =>
    /\ ret.key = SaslPropertyMaxBuffer => ReturnsNumber(sasl.RecvMaxBufSize)
    /\ ret.key = SaslPropertyRawSendSize => ReturnsNumber(sasl.RawSendSize)
    /\ ret.key = MAX_SEND_BUF => ReturnsNumber(sasl.SendMaxBufSize)

\* C16: after completion the qop property is "auth-conf" when Privacy is
\* set, otherwise "auth-int" when Integrity is set, otherwise "auth".
QopPropertyValue ==
  (ret.op = "prop" /\ ret.who = "sasl" /\ sasl.Completed /\ ret.key = SaslPropertyQop) =>
    /\ ~ret.r.err
    /\ ~ret.r.nil
    /\ ret.r.val = IF sasl.Privacy THEN AUTH_CONF
                   ELSE IF sasl.Integrity THEN AUTH_INT
                   ELSE AUTH

QopOfPrivacyAndIntegrity ==
  /\ ret.op = "prop"
  /\ ret.who = "sasl"
  /\ sasl.Completed
  /\ sasl.Privacy
  /\ sasl.Integrity
  /\ ret.key = SaslPropertyQop
  /\ ret.r.val = AUTH_CONF

\* C18: Wrap on a Privacy context with a non-empty payload encrypts the
\* plaintext: the payload portion of the output is not the plaintext bytes.
PrivacyWrapEncrypts ==
  (pret.op = "wrap" /\ Len(pret.P) > 0 /\ pret.res = "ok"
     /\ priv.encCipher # NoCipher) =>
    Slice(pret.out, 0, Len(pret.P)) # pret.P

\* the strength the mapping names for a cipher token
NamedStrength(token) ==
  IF token \in {"3des", "rc4"} THEN HIGH_STRENGTH
  ELSE IF token \in {"des", "rc4-56"} THEN MEDIUM_STRENGTH
  ELSE LOW_STRENGTH

\* C19: the mask at the index of each cipher token is high for 3des and
\* rc4, medium for des and rc4-56 and low for rc4-40, CIPHER_MASKS and
\* CIPHER_TOKENS corresponding index by index.
CipherStrengths ==
  /\ Len(CIPHER_MASKS) = Len(CIPHER_TOKENS)
  /\ \A k \in 1..Len(CIPHER_TOKENS) :
       priv.negotiatedCipher = CIPHER_TOKENS[k] =>
         CIPHER_MASKS[k] = NamedStrength(CIPHER_TOKENS[k])

SupportedCiphers == {"3des", "rc4", "des", "rc4-56", "rc4-40"}

\* C20: for a negotiated cipher name outside the five supported names the
\* building of the cipher fails with the unsupported-cipher error,
\* generatePrivacyKeyPair returns that error, and the context holds no
\* cipher.
UnsupportedCipherRejected ==
  (pret.op = "genkeys" /\ priv.negotiatedCipher \notin SupportedCiphers) =>
    /\ buildCipher(priv.negotiatedCipher, MD5Sum(<<>>)).kind = "unsupported"
    /\ pret.err
    /\ pret.kind = "unsupported"
    /\ priv.encCipher = NoCipher
    /\ priv.decCipher = NoCipher

AesKeyPairRefused ==
  /\ pret.op = "genkeys"
  /\ priv.negotiatedCipher = "aes"
  /\ pret.err
  /\ priv.encCipher = NoCipher

\* the last step was a call of EvaluateChallenge
EvaluateCalled == ret.op = "none" /\ ret'.op = "evaluate"

\* C21: IsComplete is false until the first EvaluateChallenge; that call
\* returns a response and no error; from then on IsComplete is true and
\* every further EvaluateChallenge returns an error and no response.
OneShot ==
  /\ ~IsComplete(plain.c)
  /\ [][/\ IsComplete(plain.c) => IsComplete(plain'.c)
        /\ (~IsComplete(plain.c) /\ IsComplete(plain'.c)) => EvaluateCalled
        /\ EvaluateCalled =>
             /\ IsComplete(plain'.c)
             /\ IF IsComplete(plain.c)
                THEN ret'.r.err /\ ret'.r.nil
                ELSE ~ret'.r.err /\ ~ret'.r.nil]_vars

SecondEvaluateRefused ==
  /\ ret.op = "evaluate"
  /\ IsComplete(ret.pre.c)
  /\ ret.r.err
  /\ ret.r.nil

\* C22: Wrap and Unwrap of the PLAIN client return an error and no data in
\* every state, the not-completed error before the exchange completes and
\* the neither-integrity-nor-privacy error after it, and leave the client
\* as it was.
PlainHasNoSecurityLayer ==
  ret.op \in {"wrap", "unwrap"} =>
    /\ ret.r.err
    /\ ret.r.nil
    /\ ret.r.msg = IF IsComplete(ret.pre.c)
                   THEN "PLAIN supports neither integrity nor privacy"
                   ELSE "PLAIN authentication not completed"
    /\ plain = ret.pre

WrapAfterPlainCompleted ==
  /\ ret.op = "wrap"
  /\ IsComplete(plain.c)
  /\ ret.r.err
  /\ ret.r.msg = "PLAIN supports neither integrity nor privacy"

\* C23: when Dispose or EvaluateChallenge has returned, on any of its
\* paths, every byte of the password buffer given to NewPlainClient is zero
\* and the client holds no reference to it.
PasswordErased ==
  ret.op \in {"dispose", "evaluate"} =>
    /\ \A k \in 1..Len(plain.buf) : plain.buf[k] = 0
    /\ plain.c.pw = "nil"

ErasedByFirstEvaluate ==
  /\ ret.op = "evaluate"
  /\ ret.pre.buf = Password
  /\ ret.pre.c.pw = "buf"
  /\ plain.buf = <<0, 0>>
  /\ plain.c.pw = "nil"

\* C24: after Dispose on a client that has not completed, EvaluateChallenge
\* does not return a successful response.
DisposeInvalidates ==
  (ret.op = "evaluate" /\ ~IsComplete(ret.pre.c) /\ ret.pre.c.pw = "nil") =>
    ret.r.err

\* the log entries that are next in order for receiver c: wrapped by the
\* context at the other end, and one past the number of messages c took
NextInOrder(c) ==
  {k \in 1..Len(log) : /\ Matching(log[k].from, c)
                       /\ log[k].n = ctx[c].peerSeqNum + 1}

\* C25: an Unwrap that discards a message for a MAC mismatch leaves
\* mySeqNum and peerSeqNum as they were, and the genuine message that is
\* next in order from the peer still unwraps to its payload.
SoftDiscardTolerated ==
  (last.op = "unwrap" /\ last.tamper = "mac" /\ last.res = "empty") =>
    /\ ctx[last.c].mySeqNum = last.pre.mySeqNum
    /\ ctx[last.c].peerSeqNum = last.pre.peerSeqNum
    /\ \A k \in NextInOrder(last.c) :
         LET u == IntegrityUnwrap(rev, ctx[last.c], log[k].bytes, 0, Len(log[k].bytes))
         IN  u.res = "ok" /\ u.out = log[k].payload

DiscardBeforeSecondMessage ==
  /\ last.op = "unwrap"
  /\ last.tamper = "mac"
  /\ last.res = "empty"
  /\ last.pre.peerSeqNum = 1
  /\ last.k \in NextInOrder(last.c)

\* C26: a validly wrapped message with nothing but its 4-byte sequence
\* field altered is discarded without an error whatever number was written,
\* and an unaltered message from the peer whose number is not peerSeqNum
\* gives the sequence error.
MacBindsSeqNum ==
  /\ (last.op = "unwrap" /\ last.tamper = "seq") =>
       (last.res = "empty" /\ last.out = <<>>)
  /\ (last.op = "unwrap" /\ last.tamper = "none"
        /\ Matching(log[last.k].from, last.c)
        /\ log[last.k].n # last.pre.peerSeqNum + 1) =>
       last.res = "seqerr"

AlteredToExpectedNumber ==
  /\ last.op = "unwrap"
  /\ last.tamper = "seq"
  /\ Matching(log[last.k].from, last.c)
  /\ last.alt = last.pre.peerSeqNum
  /\ last.res = "empty"

\* the last step was a call of op
Called(op) == last.op = "none" /\ last'.op = op

\* C27: Wrap never changes peerSeqNum, Unwrap never changes mySeqNum, and
\* no step makes either counter of a context smaller.
CounterOwnership ==
  [][\A c \in Ctxs :
       /\ ctx'[c].mySeqNum >= ctx[c].mySeqNum
       /\ ctx'[c].peerSeqNum >= ctx[c].peerSeqNum
       /\ Called("wrap") => ctx'[c].peerSeqNum = ctx[c].peerSeqNum
       /\ Called("unwrap") => ctx'[c].mySeqNum = ctx[c].mySeqNum]_vars

BothCountersAdvanced ==
  /\ last.op = "wrap"
  /\ last.len > 0
  /\ last.pre.peerSeqNum = 1
  /\ ctx[last.c].mySeqNum = 1
  /\ ctx[last.c].peerSeqNum = 1

\* the messages of the log that s wrapped and c has taken
Taken(s, c) == {k \in accepted[c] : log[k].from = s}

\* C28: between a client and a server context of one secret every Unwrap of
\* a message delivered in order returns its payload, the receiver has taken
\* exactly the first peerSeqNum messages of the sender, and the receiver's
\* peerSeqNum is at most the sender's mySeqNum.
InOrderSession ==
  \A s, c \in Ctxs :
    Matching(s, c) =>
      /\ ctx[c].peerSeqNum <= ctx[s].mySeqNum
      /\ Taken(s, c) = {k \in 1..Len(log) :
                          log[k].from = s /\ log[k].n <= ctx[c].peerSeqNum}
      /\ (InOrderDelivery /\ last.c = c) =>
           (last.res = "ok" /\ last.out = log[last.k].payload)

BothDirectionsDelivered ==
  /\ Matching(1, 2)
  /\ Taken(1, 2) # {}
  /\ Taken(2, 1) # {}
  /\ last.op = "unwrap"
  /\ last.res = "ok"

\* C29: a message wrapped by a context whose two keys differ, presented to
\* the Unwrap of that same context, is not accepted: no payload is returned
\* and peerSeqNum is unchanged.
ReflectionRejected ==
  (last.op = "unwrap" /\ last.tamper = "none" /\ log[last.k].from = last.c
     /\ ctx[last.c].myKi # ctx[last.c].peerKi) =>
    /\ last.res # "ok"
    /\ last.out = <<>>
    /\ ctx[last.c].peerSeqNum = last.pre.peerSeqNum

ReflectedExpectedNumber ==
  /\ last.op = "unwrap"
  /\ last.tamper = "none"
  /\ log[last.k].from = last.c
  /\ log[last.k].n = last.pre.peerSeqNum + 1
  /\ last.res = "empty"

\* C30: Unwrap of a non-empty input shorter than the 16-byte trailer
\* (length 1..15) returns an error or an empty result and leaves the context
\* unchanged; it does not abort.
ShortInputRejected ==
  (last.op = "unwrap" /\ last.len \in 1..15) =>
    /\ last.res \in {"seqerr", "empty"}
    /\ Counters(ctx[last.c]) = last.pre

\* C32: for each of the five supported cipher names generatePrivacyKeyPair
\* returns no error and installs both the encrypt and the decrypt cipher:
\* the 16-byte derived keys have a length the selected cipher accepts.
SupportedCipherInstalled ==
  (pret.op = "genkeys" /\ priv.negotiatedCipher \in SupportedCiphers) =>
    /\ ~pret.err
    /\ priv.encCipher # NoCipher
    /\ priv.decCipher # NoCipher

\* the 4 bytes of n modulo 2^32, most significant first
Low32Bytes(n) ==
  <<(n.h % 65536) \div 256, n.h % 256, n.l \div 256, n.l % 256>>

\* C31: the sender writes mySeqNum modulo 2^32 into the sequence field, and
\* the receiver accepts every message delivered in order, also after the
\* sender's counter has passed 2^32-1.
SeqFieldWrapSurvived ==
  /\ \A k \in 1..Len(far.log) :
       LET b == far.log[k].bytes
       IN  SubSeq(b, Len(b) - 3, Len(b)) = Low32Bytes(far.log[k].seq)
  /\ (far.last.op = "unwrap" /\ far.last.inorder) =>
       /\ far.last.res = "ok"
       /\ far.last.out = far.log[far.last.k].payload

=============================================================================
